---- MODULE Spec2Model ----
(***************************************************************************)
(* Model of scripts/emby_notify.py: a cron-style script that loads the     *)
(* cached item list (data/cache.json), fetches the Emby catalog, notifies  *)
(* Telegram about new titles / new resolutions / new episodes dated within *)
(* the last day, and overwrites the cache with the fetched catalog.        *)
(***************************************************************************)
EXTENDS Integers, Sequences, FiniteSets, TLC

VARIABLES cacheFile,   \* content of data/cache.json
          cacheAtStart,\* history: content of data/cache.json when the run began
          clock,       \* wall clock (datetime.utcnow()), in days
          pc,          \* position of the current run of process()
          old_items,   \* process(): value returned by load_cache()
          all_items,   \* process(): Items of the Emby response
          cutoff,      \* process(): now - 1 day
          todoMovies,  \* titles of new_movie_map not yet iterated
          todoSeries,  \* titles of new_series_map not yet iterated
          sent,        \* calls of send_telegram made by the current run, in order
          warn,        \* warnings printed by the current run
          delivered,   \* history: what Telegram accepted, over all runs
          redelivered, \* history: what Telegram accepted in more than one run
          quiet,       \* history: records of uncached titles skipped as old
          probe,       \* a pure function applied to drawn inputs, with its result
          wf           \* state of the workflow script (.github/workflows)

vars == <<cacheFile, cacheAtStart, clock, pc, old_items, all_items, cutoff,
          todoMovies, todoSeries, sent, warn, delivered, redelivered, quiet,
          probe, wf>>

----------------------------------------------------------------------------
(* Bounds and program constants *)

\* last value of the wall clock the model explores
MaxClock == 3

\* timedelta(days=1)
OneDay == 1

\* marks an absent / null JSON field
None == "None"
NoInt == -1

----------------------------------------------------------------------------
(* Catalog records (the JSON objects of the Emby response) *)

Movie(id, name, date, path, ms) ==
    [Id |-> id, Type |-> "Movie", Name |-> name, SeriesName |-> None,
     DateCreated |-> date, Path |-> path, MediaSources |-> ms,
     ParentIndexNumber |-> NoInt, IndexNumber |-> NoInt]

Episode(id, name, series, date, s, e) ==
    [Id |-> id, Type |-> "Episode", Name |-> name, SeriesName |-> series,
     DateCreated |-> date, Path |-> <<>>,
     MediaSources |-> [present |-> FALSE, list |-> <<>>],
     ParentIndexNumber |-> s, IndexNumber |-> e]

\* MediaSources: the key may be absent; each media source is its VideoStreams
\* list, each video stream its Height (NoInt when the stream has no Height)
NoSources == [present |-> FALSE, list |-> <<>>]
Sources(l) == [present |-> TRUE, list |-> l]

\* The records the catalog may hold.  m1 and m3 are two distinct records of
\* the same title with the same resolution label; m2 is a later encode of
\* that title; m4 has no resolution token in its path.
m1 == Movie("m1", "A", 1, <<"movies", "A", "1080p", "mkv">>, NoSources)
m2 == Movie("m2", "A", 2, <<"movies", "A", "2160p", "mkv">>, NoSources)
m3 == Movie("m3", "A", 2, <<"remux", "A", "1080p", "mkv">>, NoSources)
m4 == Movie("m4", "B", 2, <<"movies", "B", "mkv">>, Sources(<< <<720>> >>))
e1 == Episode("e1", "Pilot", "S", 1, 1, 1)
e2 == Episode("e2", "Second", "S", 2, 1, 2)

Universe == {m1, m2, m3, m4, e1, e2}

----------------------------------------------------------------------------
(* Cache file *)

\* kinds of content of data/cache.json:
\*   absent      no file
\*   empty       empty or whitespace-only file
\*   corrupt     text json.loads rejects
\*   foreign     the object {"items": {...}} the workflow script writes
\*   list        a JSON list of catalog records, as save_cache writes it
CacheKinds == {"absent", "empty", "corrupt", "foreign", "list"}

File(kind, items) == [kind |-> kind, items |-> items]

\* value of load_cache(): a list of records, or the dict json.loads returned
Loaded(shape, items) == [shape |-> shape, items |-> items]

load_cache(f) ==
    IF f.kind = "list" THEN Loaded("list", f.items)
    ELSE IF f.kind = "foreign" THEN Loaded("dict", {})
    ELSE Loaded("list", {})

\* the except-branch of load_cache prints a warning
load_cache_warns(f) == f.kind = "corrupt"

save_cache(items) == File("list", items)

----------------------------------------------------------------------------
(* Normalisation *)

ResTokens == {"480p", "720p", "1080p", "2160p"}

\* re.search(r'(\d{3,4}p)', path): the first resolution token of the path
PathMatches(path) == {k \in 1..Len(path) : path[k] \in ResTokens}

FirstMatch(path) ==
    path[CHOOSE k \in PathMatches(path) : \A j \in PathMatches(path) : k <= j]

HeightLabel(h) == IF h = NoInt THEN "Nonep" ELSE ToString(h) \o "p"

\* i.get('MediaSources', [{}])[0] raises IndexError on an empty list
ResolutionRaises(i) ==
    /\ PathMatches(i.Path) = {}
    /\ i.MediaSources.present
    /\ Len(i.MediaSources.list) = 0

Resolution(i) ==
    IF PathMatches(i.Path) # {} THEN FirstMatch(i.Path)
    ELSE LET vs == IF i.MediaSources.present THEN i.MediaSources.list[1] ELSE <<>>
         IN  IF Len(vs) > 0 THEN HeightLabel(vs[1]) ELSE "Unknown"

\* parse_emby_date fails on a missing or malformed DateCreated
DateParses(i) == i.DateCreated # NoInt

MovieRecords(items) == {i \in items : i.Type = "Movie" /\ DateParses(i)}

\* title -> set of <<resolution, datetime>>
build_movie_map(items) ==
    [t \in {i.Name : i \in MovieRecords(items)} |->
        {<<Resolution(i), i.DateCreated>> : i \in {j \in MovieRecords(items) : j.Name = t}}]

EpisodeRecords(items) ==
    {i \in items : /\ i.Type = "Episode"
                   /\ DateParses(i)
                   /\ i.SeriesName # None
                   /\ i.ParentIndexNumber # NoInt
                   /\ i.IndexNumber # NoInt}

\* series name -> set of <<season, episode, datetime>>
build_series_map(items) ==
    [t \in {i.SeriesName : i \in EpisodeRecords(items)} |->
        {<<i.ParentIndexNumber, i.IndexNumber, i.DateCreated>> :
            i \in {j \in EpisodeRecords(items) : j.SeriesName = t}}]

\* building the maps raises: a dict iterates over its keys (strings, which
\* have no .get), and a movie record may make the resolution lookup raise
BuildRaises(loaded) ==
    \/ loaded.shape = "dict"
    \/ \E i \in MovieRecords(loaded.items) : ResolutionRaises(i)

----------------------------------------------------------------------------
(* Enrichment (best effort) and delivery *)

\* outcomes of one HTTP call of the enrichment
SearchOutcomes == {"error", "empty", "hit"}
DetailsOutcomes ==
    [status : {"error", "ok"}, poster : BOOLEAN, overview : {"text", "blank"}]
FallbackOutcomes == {"error", "text", "none"}
RatingOutcomes == {"error", "rated", "unrated"}

Info(poster, plot, warned) == [poster |-> poster, plot |-> plot, warned |-> warned]

\* (poster, plot) of get_movie_info_tmdb / get_series_info_tmdb, the two
\* differ in the endpoints only; `warned` is the except-branch's print
get_movie_info_tmdb(search, details, fallback) ==
    IF search = "error" THEN Info(FALSE, FALSE, TRUE)
    ELSE IF search = "empty" THEN Info(FALSE, FALSE, FALSE)
    ELSE IF details.status = "error" THEN Info(FALSE, FALSE, TRUE)
    ELSE IF details.overview = "blank"
         THEN IF fallback = "error" THEN Info(FALSE, FALSE, TRUE)
              ELSE Info(details.poster, fallback = "text", FALSE)
         ELSE Info(details.poster, TRUE, FALSE)

get_series_info_tmdb(search, details, fallback) ==
    get_movie_info_tmdb(search, details, fallback)

Rating(rating, warned) == [rating |-> rating, warned |-> warned]

\* rating of get_rating_trakt / get_rating_trakt_series
get_rating_trakt(search, ratings) ==
    IF search = "error" THEN Rating(FALSE, TRUE)
    ELSE IF search = "empty" THEN Rating(FALSE, FALSE)
    ELSE IF ratings = "error" THEN Rating(FALSE, TRUE)
    ELSE Rating(ratings = "rated", FALSE)

get_rating_trakt_series(search, ratings) == get_rating_trakt(search, ratings)

\* what one title's enrichment can print
Enrichments ==
    {[warns |-> (IF tm.warned THEN {"TMDb"} ELSE {}) \cup
                (IF tr.warned THEN {"Trakt"} ELSE {})] :
        tm \in {get_movie_info_tmdb(s, d, f) :
                  s \in SearchOutcomes, d \in DetailsOutcomes, f \in FallbackOutcomes},
        tr \in {get_rating_trakt(s, r) : s \in SearchOutcomes, r \in RatingOutcomes}}

\* outcome of the POST of send_telegram: a 2xx response, a non-2xx response,
\* or an exception of the transport
TelegramOutcomes == {"ok", "http_error", "exception"}

\* send_telegram returns nothing: a failure is printed and swallowed
send_telegram_ok(outcome) == outcome = "ok"

\* one call of send_telegram
Call(kind, event, title, res, eps, outcome) ==
    [kind |-> kind, event |-> event, title |-> title, res |-> res, eps |-> eps,
     ok |-> send_telegram_ok(outcome)]

----------------------------------------------------------------------------
(* Diff of process() *)

\* what the loop body decides for one title: "none", or the kind of the
\* notification and the resolutions / episodes its text lists
Event(event, res, eps) == [event |-> event, res |-> res, eps |-> eps]

Lookup(map, t) == IF t \in DOMAIN map THEN map[t] ELSE {}

\* RecentRes with a slip: the cutoff is not applied
RecentRes_All(infos, c) == {x[1] : x \in infos}

\* recent = {res for (res, dt) in infos if dt >= cutoff}
RecentRes(infos, c) == {x[1] : x \in {y \in infos : y[2] >= c}}

\* OldRes with a slip: the cached resolutions of the title are not looked up
OldRes_Forgets(oldmap, t) == {}

\* old_res = {res for (res, _) in old_movie_map.get(title, set())}
OldRes(oldmap, t) == {x[1] : x \in Lookup(oldmap, t)}

\* Variants of MovieEvent with one slip each, used to see that the checked
\* properties depend on the diff:
\*   NoDiff      the update lists every recent resolution (old_res not subtracted)
\*   NewAll      the new-film text lists every resolution of the title
\*   BySource    the update subtracts (resolution, datetime) pairs, not labels
\*   SymDiff     the update lists the symmetric difference (removals too)
\*   NewIfAdded  any title with an added resolution is announced as new
MovieEvent_NoDiff(oldmap, newmap, t, c) ==
    LET recent == RecentRes(newmap[t], c)
    IN  IF recent = {} THEN Event("none", {}, {})
        ELSE IF t \notin DOMAIN oldmap THEN Event("new", recent, {})
        ELSE Event("update", recent, {})

MovieEvent_NewAll(oldmap, newmap, t, c) ==
    LET recent == RecentRes(newmap[t], c)
        added  == recent \ OldRes(oldmap, t)
    IN  IF recent = {} THEN Event("none", {}, {})
        ELSE IF t \notin DOMAIN oldmap
             THEN Event("new", {x[1] : x \in newmap[t]}, {})
        ELSE IF added # {} THEN Event("update", added, {})
        ELSE Event("none", {}, {})

MovieEvent_BySource(oldmap, newmap, t, c) ==
    LET recent == RecentRes(newmap[t], c)
        added  == RecentRes(newmap[t] \ Lookup(oldmap, t), c)
    IN  IF recent = {} THEN Event("none", {}, {})
        ELSE IF t \notin DOMAIN oldmap THEN Event("new", recent, {})
        ELSE IF added # {} THEN Event("update", added, {})
        ELSE Event("none", {}, {})

MovieEvent_SymDiff(oldmap, newmap, t, c) ==
    LET recent == RecentRes(newmap[t], c)
        added  == (recent \ OldRes(oldmap, t)) \cup (OldRes(oldmap, t) \ recent)
    IN  IF recent = {} THEN Event("none", {}, {})
        ELSE IF t \notin DOMAIN oldmap THEN Event("new", recent, {})
        ELSE IF added # {} THEN Event("update", added, {})
        ELSE Event("none", {}, {})

MovieEvent_NewIfAdded(oldmap, newmap, t, c) ==
    LET recent == RecentRes(newmap[t], c)
        added  == recent \ OldRes(oldmap, t)
    IN  IF recent = {} THEN Event("none", {}, {})
        ELSE IF added # {} THEN Event("new", recent, {})
        ELSE Event("none", {}, {})

\* the notification of one movie title: "none", or the event and the
\* resolutions its text lists
MovieEvent(oldmap, newmap, t, c) ==
    LET recent == RecentRes(newmap[t], c)
        added  == recent \ OldRes(oldmap, t)
    IN  IF recent = {} THEN Event("none", {}, {})
        ELSE IF t \notin DOMAIN oldmap THEN Event("new", recent, {})
        ELSE IF added # {} THEN Event("update", added, {})
        ELSE Event("none", {}, {})

\* recent_eps = {(s, e) for (s, e, dt) in infos if dt >= cutoff}
RecentEps(infos, c) == {<<x[1], x[2]>> : x \in {y \in infos : y[3] >= c}}

\* old_eps = {(s, e) for (s, e, _) in old_series_map.get(title, set())}
OldEps(oldmap, t) == {<<x[1], x[2]>> : x \in Lookup(oldmap, t)}

SeriesEvent(oldmap, newmap, t, c) ==
    LET recent == RecentEps(newmap[t], c)
        added  == recent \ OldEps(oldmap, t)
    IN  IF recent = {} THEN Event("none", {}, {})
        ELSE IF t \notin DOMAIN oldmap THEN Event("new", {}, recent)
        ELSE IF added # {} THEN Event("update", {}, added)
        ELSE Event("none", {}, {})

\* whether the loop body reaches the enrichment calls for this title
MovieEnriched(newmap, t, c) == RecentRes(newmap[t], c) # {}
SeriesEnriched(newmap, t, c) == RecentEps(newmap[t], c) # {}

\* history of what Telegram accepted
Announced(call) ==
    {[kind |-> call.kind, title |-> call.title, res |-> r, ep |-> <<0, 0>>] :
        r \in call.res}
    \cup
    {[kind |-> call.kind, title |-> call.title, res |-> "", ep |-> p] :
        p \in call.eps}

----------------------------------------------------------------------------
(* The run of process() *)

\* no pure function has been applied; the workflow script is not running
NoProbe == [fn |-> "none", arg |-> <<>>, result |-> <<>>]
WfIdle ==
    [pc |-> "idle", cache |-> [shape |-> "dict", ids |-> {}], todo |-> <<>>,
     new_cache |-> {}, sent |-> <<>>]

Epoch == CHOOSE d \in {i.DateCreated : i \in Universe} :
            \A i \in Universe : i.DateCreated <= d

Init ==
    /\ cacheFile \in {File(k, {}) : k \in CacheKinds \ {"list"}}
    /\ cacheAtStart = cacheFile
    /\ clock = Epoch
    /\ pc = "idle"
    /\ old_items = Loaded("list", {})
    /\ all_items = {}
    /\ cutoff = 0
    /\ todoMovies = {}
    /\ todoSeries = {}
    /\ sent = <<>>
    /\ warn = {}
    /\ delivered = {}
    /\ redelivered = {}
    /\ quiet = {}
    /\ probe = NoProbe
    /\ wf = WfIdle

Ended == pc \in {"idle", "done", "failed", "crashed"}

\* exit status of the interpreter for a run that ended at position p: process()
\* returned (after save_cache, or from the except-branch of the Emby request),
\* or an exception reached the top level
exit_status(p) == IF p = "crashed" THEN 1 ELSE 0

\* process() is started (by cron, some time after the previous run ended):
\* old_items = load_cache()
LoadCache ==
    /\ Ended
    /\ \E now \in clock..MaxClock : clock' = now
    /\ old_items' = load_cache(cacheFile)
    /\ warn' = IF load_cache_warns(cacheFile) THEN {"Cache"} ELSE {}
    /\ all_items' = {}
    /\ cutoff' = 0
    /\ todoMovies' = {}
    /\ todoSeries' = {}
    /\ sent' = <<>>
    /\ pc' = "loaded"
    /\ cacheAtStart' = cacheFile
    /\ UNCHANGED <<cacheFile, delivered, redelivered, quiet, probe, wf>>

\* FetchFail with a slip: the except-branch resets the cache before returning
FetchFail_Resets ==
    /\ pc = "loaded"
    /\ warn' = warn \cup {"Emby"}
    /\ cacheFile' = save_cache({})
    /\ pc' = "failed"
    /\ UNCHANGED <<cacheAtStart, clock, old_items, all_items, cutoff,
                   todoMovies, todoSeries, sent, delivered, redelivered, quiet,
                   probe, wf>>

\* the Emby request raises (connection error, timeout, HTTP error status):
\* the except-branch prints and returns
FetchFail ==
    /\ pc = "loaded"
    /\ warn' = warn \cup {"Emby"}
    /\ pc' = "failed"
    /\ UNCHANGED <<cacheFile, cacheAtStart, clock, old_items, all_items, cutoff,
                   todoMovies, todoSeries, sent, delivered, redelivered, quiet,
                   probe, wf>>

\* Fetch with a slip: the catalog is saved as soon as it has been fetched
Fetch_SavesFirst(catalog) ==
    /\ pc = "loaded"
    /\ \E items \in SUBSET catalog :
         /\ all_items' = items
         /\ cacheFile' = save_cache(items)
         /\ cutoff' = clock - OneDay
         /\ IF BuildRaises(old_items) \/ BuildRaises(Loaded("list", items))
            THEN /\ pc' = "crashed"
                 /\ UNCHANGED <<todoMovies, todoSeries>>
            ELSE /\ pc' = "notify"
                 /\ todoMovies' = DOMAIN build_movie_map(items)
                 /\ todoSeries' = DOMAIN build_series_map(items)
    /\ UNCHANGED <<cacheAtStart, clock, old_items, sent, warn, delivered,
                   redelivered, quiet, probe, wf>>

\* the Emby request answers with some of the records of `catalog`; now,
\* cutoff and the four maps are computed
Fetch(catalog) ==
    /\ pc = "loaded"
    /\ \E items \in SUBSET catalog :
         /\ all_items' = items
         /\ cutoff' = clock - OneDay
         /\ IF BuildRaises(old_items) \/ BuildRaises(Loaded("list", items))
            THEN /\ pc' = "crashed"
                 /\ UNCHANGED <<todoMovies, todoSeries>>
            ELSE /\ pc' = "notify"
                 /\ todoMovies' = DOMAIN build_movie_map(items)
                 /\ todoSeries' = DOMAIN build_series_map(items)
    /\ UNCHANGED <<cacheFile, cacheAtStart, clock, old_items, sent, warn, delivered,
                   redelivered, quiet, probe, wf>>

\* what the call a step appended to the calls of the run announces, when
\* Telegram accepted it, and an earlier run had already delivered
Again(before, after, known) ==
    IF Len(after) > Len(before) /\ after[Len(after)].ok
    THEN Announced(after[Len(after)]) \cap known
    ELSE {}

\* Notify with a slip: send_telegram lets the transport's exception escape,
\* which ends the run
Notify_Raises(kind, ev, t, track) ==
    \E en \in Enrichments :
        IF ev.event = "none"
        THEN /\ warn' = warn \cup en.warns
             /\ UNCHANGED <<pc, sent, delivered>>
        ELSE \E o \in TelegramOutcomes :
               LET call == Call(kind, ev.event, t, ev.res, ev.eps, o)
               IN  /\ pc' = IF o = "exception" THEN "crashed" ELSE "notify"
                   /\ sent' = Append(sent, call)
                   /\ warn' = warn \cup en.warns \cup
                              (IF call.ok THEN {} ELSE {"Telegram"})
                   /\ delivered' = IF track /\ call.ok
                                   THEN delivered \cup Announced(call)
                                   ELSE delivered

\* the enrichment calls and, when the title has an event, send_telegram;
\* `track` says whether the history of deliveries is kept
Notify(kind, ev, t, track) ==
    \E en \in Enrichments :
        IF ev.event = "none"
        THEN /\ warn' = warn \cup en.warns
             /\ UNCHANGED <<pc, sent, delivered>>
        ELSE \E o \in TelegramOutcomes :
               LET call == Call(kind, ev.event, t, ev.res, ev.eps, o)
               IN  /\ pc' = "notify"
                   /\ sent' = Append(sent, call)
                   /\ warn' = warn \cup en.warns \cup
                              (IF call.ok THEN {} ELSE {"Telegram"})
                   /\ delivered' = IF track /\ call.ok
                                   THEN delivered \cup Announced(call)
                                   ELSE delivered

\* one iteration of the loop over new_movie_map; `note` says whether the
\* history of the records skipped as old is kept
MovieIteration(track, note) ==
    /\ pc = "notify"
    /\ \E t \in todoMovies :
         /\ todoMovies' = todoMovies \ {t}
         /\ IF ~MovieEnriched(build_movie_map(all_items), t, cutoff)
            THEN /\ UNCHANGED <<pc, sent, warn, delivered, redelivered>>
                 /\ quiet' = IF note /\ t \notin DOMAIN build_movie_map(old_items.items)
                             THEN quiet \cup {i \in MovieRecords(all_items) : i.Name = t}
                             ELSE quiet
            ELSE /\ UNCHANGED quiet
                 /\ Notify("movie",
                           MovieEvent(build_movie_map(old_items.items),
                                      build_movie_map(all_items), t, cutoff),
                           t, track)
                 /\ redelivered' = IF note
                                   THEN redelivered \cup Again(sent, sent', delivered)
                                   ELSE redelivered
    /\ UNCHANGED <<cacheFile, cacheAtStart, clock, old_items, all_items, cutoff,
                   todoSeries, probe, wf>>

\* one iteration of the loop over new_series_map, which starts when the loop
\* over new_movie_map is exhausted
SeriesIteration(track, note) ==
    /\ pc = "notify"
    /\ todoMovies = {}
    /\ \E t \in todoSeries :
         /\ todoSeries' = todoSeries \ {t}
         /\ IF ~SeriesEnriched(build_series_map(all_items), t, cutoff)
            THEN /\ UNCHANGED <<pc, sent, warn, delivered, redelivered>>
                 /\ quiet' = IF note /\ t \notin DOMAIN build_series_map(old_items.items)
                             THEN quiet \cup
                                  {i \in EpisodeRecords(all_items) : i.SeriesName = t}
                             ELSE quiet
            ELSE /\ UNCHANGED quiet
                 /\ Notify("series",
                            SeriesEvent(build_series_map(old_items.items),
                                        build_series_map(all_items), t, cutoff),
                            t, track)
                 /\ redelivered' = IF note
                                   THEN redelivered \cup Again(sent, sent', delivered)
                                   ELSE redelivered
    /\ UNCHANGED <<cacheFile, cacheAtStart, clock, old_items, all_items, cutoff,
                   todoMovies, probe, wf>>

\* SaveCache with a slip: the list written is the one that was loaded
SaveCache_Old ==
    /\ pc = "notify"
    /\ todoMovies = {}
    /\ todoSeries = {}
    /\ cacheFile' = save_cache(old_items.items)
    /\ pc' = "done"
    /\ UNCHANGED <<cacheAtStart, clock, old_items, all_items, cutoff, todoMovies,
                   todoSeries, sent, warn, delivered, redelivered, quiet,
                   probe, wf>>

\* save_cache(all_items), the last statement of process()
SaveCache ==
    /\ pc = "notify"
    /\ todoMovies = {}
    /\ todoSeries = {}
    /\ cacheFile' = save_cache(all_items)
    /\ pc' = "done"
    /\ UNCHANGED <<cacheAtStart, clock, old_items, all_items, cutoff, todoMovies,
                   todoSeries, sent, warn, delivered, redelivered, quiet,
                   probe, wf>>

FetchOk == Fetch(Universe)
NotifyMovie == MovieIteration(FALSE, FALSE)
NotifySeries == SeriesIteration(FALSE, FALSE)

Next ==
    \/ LoadCache
    \/ FetchFail
    \/ FetchOk
    \/ NotifyMovie
    \/ NotifySeries
    \/ SaveCache

Spec == Init /\ [][Next]_vars

\* The same runs over a smaller catalog, with the history of deliveries kept
HistoryUniverse == {m1, m2, m4, e1}

FetchOkH == Fetch(HistoryUniverse)
NotifyMovieH == MovieIteration(TRUE, FALSE)
NotifySeriesH == SeriesIteration(TRUE, FALSE)

NextH ==
    \/ LoadCache
    \/ FetchFail
    \/ FetchOkH
    \/ NotifyMovieH
    \/ NotifySeriesH
    \/ SaveCache

InitH == Init /\ cacheFile.kind = "absent"

SpecH == InitH /\ [][NextH]_vars

\* Runs over a catalog that only grows: nothing is ever removed from the
\* library, so each answer of Emby holds what the previous completed run
\* saved; the histories of deliveries and of skipped records are kept
FetchOkG == Fetch(Universe) /\ cacheFile.items \subseteq all_items'
NotifyMovieG == MovieIteration(TRUE, TRUE)
NotifySeriesG == SeriesIteration(TRUE, TRUE)

NextG ==
    \/ LoadCache
    \/ FetchFail
    \/ FetchOkG
    \/ NotifyMovieG
    \/ NotifySeriesG
    \/ SaveCache

SpecG == Init /\ [][NextG]_vars

----------------------------------------------------------------------------
(* The pure functions, applied to inputs drawn from bounded sets *)

processVars == <<cacheFile, cacheAtStart, clock, pc, old_items, all_items, cutoff,
                 todoMovies, todoSeries, sent, warn, delivered, redelivered,
                 quiet>>

\* poster, plot = get_movie_info_tmdb(title), for each outcome of its HTTP calls
ApplyMovieInfo ==
    /\ \E s \in SearchOutcomes, d \in DetailsOutcomes, f \in FallbackOutcomes :
         probe' = [fn |-> "get_movie_info_tmdb",
                   arg |-> [search |-> s, details |-> d, fallback |-> f],
                   result |-> get_movie_info_tmdb(s, d, f)]
    /\ UNCHANGED <<processVars, wf>>

\* poster, plot = get_series_info_tmdb(title)
ApplySeriesInfo ==
    /\ \E s \in SearchOutcomes, d \in DetailsOutcomes, f \in FallbackOutcomes :
         probe' = [fn |-> "get_series_info_tmdb",
                   arg |-> [search |-> s, details |-> d, fallback |-> f],
                   result |-> get_series_info_tmdb(s, d, f)]
    /\ UNCHANGED <<processVars, wf>>

\* the code points of a resolution label (ord of each character)
CodePoints(label) ==
    CASE label = "480p"    -> <<52, 56, 48, 112>>
      [] label = "720p"    -> <<55, 50, 48, 112>>
      [] label = "1080p"   -> <<49, 48, 56, 48, 112>>
      [] label = "2160p"   -> <<50, 49, 54, 48, 112>>
      [] label = "Nonep"   -> <<78, 111, 110, 101, 112>>
      [] label = "Unknown" -> <<85, 110, 107, 110, 111, 119, 110>>

\* a < b for two Python strings: the first differing code point decides,
\* a proper prefix is smaller
StrLess(a, b) ==
    LET x == CodePoints(a)
        y == CodePoints(b)
        n == IF Len(x) < Len(y) THEN Len(x) ELSE Len(y)
        d == {k \in 1..n : x[k] # y[k]}
    IN  IF d = {} THEN Len(x) < Len(y)
        ELSE LET k == CHOOSE j \in d : \A i \in d : j <= i
             IN  x[k] < y[k]

\* sorted(recent) / sorted(added): the labels in ascending order of str
sorted(labels) ==
    LET RECURSIVE asc(_)
        asc(S) == IF S = {} THEN <<>>
                  ELSE LET m == CHOOSE x \in S : \A y \in S \ {x} : StrLess(x, y)
                       IN  <<m>> \o asc(S \ {m})
    IN  asc(labels)

\* the labels build_movie_map produces for the records of one title
SortableLabels == ResTokens \cup {"Unknown"}

\* ', '.join(sorted(recent)) and ', '.join(sorted(added)) of a movie notification
ApplySorted ==
    /\ \E labels \in SUBSET SortableLabels :
         probe' = [fn |-> "sorted", arg |-> labels, result |-> sorted(labels)]
    /\ UNCHANGED <<processVars, wf>>

\* the Path and MediaSources a movie record of the catalog may carry: a path
\* with no token, one token or two, or no Path at all; MediaSources absent,
\* empty, or a first source with no video stream, a stream without Height,
\* or streams with a Height
ProbePaths ==
    {<<>>, <<"movies", "P", "mkv">>, <<"movies", "P", "1080p", "mkv">>,
     <<"movies", "720p", "P", "480p", "mkv">>}
ProbeSources ==
    {NoSources, Sources(<<>>), Sources(<< <<>> >>), Sources(<< <<NoInt>> >>),
     Sources(<< <<720>> >>), Sources(<< <<2160, 480>>, <<1080>> >>)}

\* build_movie_map([i]) for one movie record i
ApplyBuildMovieMap ==
    /\ \E path \in ProbePaths, ms \in ProbeSources :
         LET i == Movie("p", "P", Epoch, path, ms)
         IN  probe' = [fn |-> "build_movie_map",
                       arg |-> i,
                       result |-> IF BuildRaises(Loaded("list", {i}))
                                  THEN [raised |-> TRUE, map |-> <<>>]
                                  ELSE [raised |-> FALSE,
                                        map |-> build_movie_map({i})]]
    /\ UNCHANGED <<processVars, wf>>

NextP ==
    \/ ApplyMovieInfo
    \/ ApplySeriesInfo
    \/ ApplySorted
    \/ ApplyBuildMovieMap

SpecP == InitH /\ [][NextP]_vars

----------------------------------------------------------------------------
(* The workflow script, .github/workflows/emby_notify.py, which shares       *)
(* data/cache.json with scripts/emby_notify.py                               *)

runVars == <<cacheAtStart, clock, pc, old_items, all_items, cutoff, todoMovies,
             todoSeries, sent, warn, delivered, redelivered, quiet>>

\* a media stream: its Type, and its Channels (NoInt when the key is absent)
Stream(type, channels) == [Type |-> type, Channels |-> channels]

WfItem(id, streams) == [Id |-> id, MediaStreams |-> streams]

\* next((s.get("Channels") for s in MediaStreams if s.get("Type") == "Audio"), 2):
\* the Channels of the first audio stream, None when it has none; 2 when the
\* item has no audio stream
audio_channels(streams) ==
    LET audio == {k \in 1..Len(streams) : streams[k].Type = "Audio"}
    IN  IF audio = {} THEN 2
        ELSE streams[CHOOSE k \in audio : \A j \in audio : k <= j].Channels

\* channels - 1 raises TypeError when channels is None
format_audio_raises(channels) == channels = NoInt

format_audio(channels) ==
    IF channels = 2 THEN "2.0"
    ELSE IF channels = 6 THEN "5.1"
    ELSE IF channels = 8 THEN "7.1"
    ELSE ToString(channels - 1) \o ".1"

\* largest channel count the inputs of format_audio are drawn from
MaxChannels == 9

\* the MediaStreams an item may carry: no stream, a video stream only, or a
\* video stream followed by an audio stream with or without Channels
ProbeStreams ==
    {<<>>, <<Stream("Video", NoInt)>>}
    \cup {<<Stream("Video", NoInt), Stream("Audio", c)>> :
             c \in (0..MaxChannels) \cup {NoInt}}
    \cup {<<Stream("Audio", c), Stream("Audio", 2)>> : c \in {6, NoInt}}

\* audio_str = format_audio(audio_channels), lines 97-98 of main()
ApplyFormatAudio ==
    /\ \E streams \in ProbeStreams :
         LET c == audio_channels(streams)
         IN  probe' = [fn |-> "format_audio",
                       arg |-> streams,
                       result |-> IF format_audio_raises(c)
                                  THEN [raised |-> TRUE, label |-> ""]
                                  ELSE [raised |-> FALSE, label |-> format_audio(c)]]
    /\ UNCHANGED <<cacheFile, runVars, wf>>

\* The items get_emby_items may return: a stereo movie, a 5.1 movie, an item
\* with no media stream, and an item whose audio stream has no Channels
w1 == WfItem("w1", <<Stream("Video", NoInt), Stream("Audio", 2)>>)
w2 == WfItem("w2", <<Stream("Video", NoInt), Stream("Audio", 6)>>)
w3 == WfItem("w3", <<>>)
w4 == WfItem("w4", <<Stream("Audio", NoInt)>>)

WfUniverse == {w1, w2, w3, w4}

\* longest answer of Emby the model explores (the request asks for 50 items)
MaxItems == 2

\* the lists of distinct items of at most MaxItems items
WfAnswers ==
    {q \in UNION {[1..n -> WfUniverse] : n \in 0..MaxItems} :
        \A j, k \in 1..Len(q) : j # k => q[j] # q[k]}

\* load_cache() of the workflow script: json.load raises on an empty or
\* corrupt file (not caught); the object has the ids under "items"; a list,
\* as scripts/emby_notify.py writes it, is returned as it is
wf_load_cache_raises(f) == f.kind \in {"empty", "corrupt"}

wf_load_cache(f) ==
    IF f.kind = "foreign" THEN [shape |-> "dict", ids |-> f.items]
    ELSE IF f.kind = "list" THEN [shape |-> "list", ids |-> {}]
    ELSE [shape |-> "dict", ids |-> {}]

\* save_cache(new_cache): {"items": {id: {"last_check": ...}}}
wf_save_cache(ids) == File("foreign", ids)

\* main() starts: cache = load_cache(); new_cache = {"items": {}}
WfLoadCache ==
    /\ wf.pc \in {"idle", "done", "crashed"}
    /\ wf' = IF wf_load_cache_raises(cacheFile)
             THEN [WfIdle EXCEPT !.pc = "crashed"]
             ELSE [WfIdle EXCEPT !.pc = "loaded",
                                 !.cache = wf_load_cache(cacheFile)]
    /\ UNCHANGED <<cacheFile, runVars, probe>>

\* items = get_emby_items(): the request or raise_for_status() raises
WfFetchFail ==
    /\ wf.pc = "loaded"
    /\ wf' = [wf EXCEPT !.pc = "crashed"]
    /\ UNCHANGED <<cacheFile, runVars, probe>>

\* items = get_emby_items()
WfFetchOk ==
    /\ wf.pc = "loaded"
    /\ \E items \in WfAnswers : wf' = [wf EXCEPT !.pc = "loop", !.todo = items]
    /\ UNCHANGED <<cacheFile, runVars, probe>>

\* outcomes of send_telegram of the workflow script: the photo download or
\* the POST raises (not caught), or the POST is answered, whatever its status
WfTelegramOutcomes == {"ok", "http_error", "exception"}

\* one iteration of the loop of main(): audio label, status, new_cache entry,
\* and send_telegram, for every item
WfItemIteration ==
    /\ wf.pc = "loop"
    /\ wf.todo # <<>>
    /\ LET item == Head(wf.todo)
           c == audio_channels(item.MediaStreams)
       IN  IF format_audio_raises(c) \/ wf.cache.shape = "list"
           THEN wf' = [wf EXCEPT !.pc = "crashed"]
           ELSE \E o \in WfTelegramOutcomes :
                  wf' = [wf EXCEPT
                           !.pc = IF o = "exception" THEN "crashed" ELSE "loop",
                           !.todo = Tail(wf.todo),
                           !.new_cache = wf.new_cache \cup {item.Id},
                           !.sent = Append(wf.sent,
                                      [id |-> item.Id,
                                       status |-> IF item.Id \in wf.cache.ids
                                                  THEN "Aggiornamento" ELSE "Nuovo",
                                       audio |-> format_audio(c),
                                       ok |-> o = "ok"])]
    /\ UNCHANGED <<cacheFile, runVars, probe>>

\* save_cache(new_cache), the last statement of main()
WfSaveCache ==
    /\ wf.pc = "loop"
    /\ wf.todo = <<>>
    /\ cacheFile' = wf_save_cache(wf.new_cache)
    /\ wf' = [wf EXCEPT !.pc = "done"]
    /\ UNCHANGED <<runVars, probe>>

NextW ==
    \/ ApplyFormatAudio
    \/ WfLoadCache
    \/ WfFetchFail
    \/ WfFetchOk
    \/ WfItemIteration
    \/ WfSaveCache

SpecW == Init /\ [][NextW]_vars

----------------------------------------------------------------------------
(* Vocabulary of the properties, stated over the records themselves *)

\* the maps of the run have been built
Started == pc \in {"notify", "done"}

CachedMovies(t) == {i \in MovieRecords(old_items.items) : i.Name = t}
CurrentMovies(t) == {i \in MovieRecords(all_items) : i.Name = t}
CachedEpisodes(t) == {i \in EpisodeRecords(old_items.items) : i.SeriesName = t}
CurrentEpisodes(t) == {i \in EpisodeRecords(all_items) : i.SeriesName = t}

MovieTitles == {i.Name : i \in MovieRecords(all_items)}
SeriesTitles == {i.SeriesName : i \in EpisodeRecords(all_items)}

Labels(records) == {Resolution(i) : i \in records}
Numbers(records) == {<<i.ParentIndexNumber, i.IndexNumber>> : i \in records}
Within(records) == {i \in records : i.DateCreated >= cutoff}

\* positions in `sent` of the calls made for a title
CallsFor(kind, t) == {k \in 1..Len(sent) : sent[k].kind = kind /\ sent[k].title = t}

\* the call announces (the resolution or the episode of) the record
Announces(call, i) ==
    \/ /\ call.kind = "movie"
       /\ i \in MovieRecords({i})
       /\ i.Name = call.title
       /\ Resolution(i) \in call.res
    \/ /\ call.kind = "series"
       /\ i \in EpisodeRecords({i})
       /\ i.SeriesName = call.title
       /\ <<i.ParentIndexNumber, i.IndexNumber>> \in call.eps

----------------------------------------------------------------------------
(* C1: when send_telegram fails for the notification of a title, what that  *)
(* notification announced is not recorded in the cache the run writes (so   *)
(* the next run over the same catalog announces it again).  The code writes *)
(* the whole catalog whatever send_telegram printed: TLC refutes this.      *)
C1_FailedDeliveryNotCached ==
    pc = "done" =>
        \A k \in 1..Len(sent) :
            ~sent[k].ok => \A i \in cacheFile.items : ~Announces(sent[k], i)

(* C2: when the fetched catalog equals the cached item list, the run calls  *)
(* send_telegram for no movie and no episode, whatever the cutoff.          *)
C2_NoChangeNoNotification ==
    (Started /\ old_items.shape = "list" /\ old_items.items = all_items)
        => sent = <<>>

C2_Witness ==
    /\ pc = "done"
    /\ old_items.items = all_items
    /\ \E i \in MovieRecords(all_items) : i.DateCreated >= cutoff
    /\ \E i \in EpisodeRecords(all_items) : i.DateCreated >= cutoff
    /\ \E i \in all_items : i.DateCreated < cutoff
    /\ sent = <<>>

(* C3: when the Emby request fails, the run has sent no notification and    *)
(* data/cache.json is what it was when the run began.                       *)
C3_CatalogFailureLeavesCache ==
    pc = "failed" => (sent = <<>> /\ cacheFile = cacheAtStart)

C3_Witness ==
    /\ pc = "failed"
    /\ cacheFile.kind = "list"
    /\ cacheFile.items # {}
    /\ "Emby" \in warn

(* C4, as stated: a movie absent from the cache with a record dated at or   *)
(* after the cutoff gets exactly one "new" notification, which lists every  *)
(* resolution the movie has in the catalog.  The code lists `recent` only:  *)
(* TLC refutes this.                                                        *)
C4_NewListsAllSources ==
    pc = "done" =>
        \A t \in MovieTitles :
            (CachedMovies(t) = {} /\ Within(CurrentMovies(t)) # {}) =>
                \E k \in 1..Len(sent) :
                    /\ CallsFor("movie", t) = {k}
                    /\ sent[k].event = "new"
                    /\ sent[k].res = Labels(CurrentMovies(t))

(* C4, amended: a movie absent from the cache with a record dated at or     *)
(* after the cutoff gets exactly one "new" notification, which lists the    *)
(* resolutions of the records dated at or after the cutoff, and only those. *)
C4_NewListsRecentSources ==
    pc = "done" =>
        \A t \in MovieTitles :
            (CachedMovies(t) = {} /\ Within(CurrentMovies(t)) # {}) =>
                \E k \in 1..Len(sent) :
                    /\ CallsFor("movie", t) = {k}
                    /\ sent[k].event = "new"
                    /\ sent[k].res = Labels(Within(CurrentMovies(t)))

C4_Witness ==
    /\ pc = "done"
    /\ \E t \in MovieTitles :
         /\ CachedMovies(t) = {}
         /\ Within(CurrentMovies(t)) # {}
         /\ Labels(Within(CurrentMovies(t))) # Labels(CurrentMovies(t))
         /\ CallsFor("movie", t) # {}

\* the records of a title whose Id no cached record of the title has
AddedSources(t) ==
    {i \in CurrentMovies(t) : i.Id \notin {j.Id : j \in CachedMovies(t)}}

(* C5, as stated: for a movie present in the cache the added sources are    *)
(* the current records minus the cached records, by identity: whenever one  *)
(* of them is dated at or after the cutoff there is exactly one update      *)
(* notification, which lists the added sources.  The code subtracts         *)
(* resolution labels: TLC refutes this.                                     *)
C5_UpdateBySourceIdentity ==
    pc = "done" =>
        \A t \in MovieTitles :
            (CachedMovies(t) # {} /\ Within(AddedSources(t)) # {}) =>
                \E k \in 1..Len(sent) :
                    /\ CallsFor("movie", t) = {k}
                    /\ sent[k].event = "update"
                    /\ sent[k].res = Labels(AddedSources(t))

\* the labels of the records dated at or after the cutoff that no cached
\* record of the title has
AddedLabels(t) == Labels(Within(CurrentMovies(t))) \ Labels(CachedMovies(t))

(* C5, amended: for a movie present in the cache the added set is the       *)
(* resolution labels of the current records dated at or after the cutoff    *)
(* minus the labels of the cached records: when it is not empty there is    *)
(* exactly one update notification, which lists exactly that set, and when  *)
(* it is empty there is none (a distinct record whose label is already      *)
(* cached is not announced).                                                *)
C5_UpdateByLabel ==
    pc = "done" =>
        \A t \in MovieTitles :
            CachedMovies(t) # {} =>
                IF AddedLabels(t) # {}
                THEN \E k \in 1..Len(sent) :
                        /\ CallsFor("movie", t) = {k}
                        /\ sent[k].event = "update"
                        /\ sent[k].res = AddedLabels(t)
                ELSE CallsFor("movie", t) = {}

C5_Witness ==
    /\ pc = "done"
    /\ \E t \in MovieTitles :
         /\ CachedMovies(t) # {}
         /\ AddedLabels(t) # {}
         /\ \E i \in Within(AddedSources(t)) : Resolution(i) \in Labels(CachedMovies(t))
         /\ \E k \in CallsFor("movie", t) : sent[k].res = AddedLabels(t)

(* C6: when the catalog differs from the cache by removals only, the run    *)
(* sends no notification, whatever the cutoff.                              *)
C6_RemovalsAreSilent ==
    (/\ Started
     /\ old_items.shape = "list"
     /\ all_items \subseteq old_items.items
     /\ all_items # old_items.items)
        => sent = <<>>

C6_Witness ==
    /\ pc = "done"
    /\ all_items \subseteq old_items.items
    /\ \E t \in MovieTitles :
         /\ Within(CurrentMovies(t)) # {}
         /\ Labels(CachedMovies(t)) # Labels(CurrentMovies(t))
    /\ \E t \in SeriesTitles :
         /\ Within(CurrentEpisodes(t)) # {}
         /\ Numbers(CachedEpisodes(t)) # Numbers(CurrentEpisodes(t))
    /\ sent = <<>>

(* C7, as stated: identity is the catalog id: a current movie record whose  *)
(* Id is not in the cache and whose date is at or after the cutoff is       *)
(* announced as a new item.  The code keys its maps by title: TLC refutes   *)
(* this.                                                                    *)
C7_NewById ==
    pc = "done" =>
        \A i \in Within(MovieRecords(all_items)) :
            i.Id \notin {j.Id : j \in old_items.items} =>
                \E k \in CallsFor("movie", i.Name) :
                    sent[k].event = "new" /\ Resolution(i) \in sent[k].res

(* C7, amended: identity is the title: a current movie record dated at or   *)
(* after the cutoff is announced as a new item exactly when no cached       *)
(* record has its title; when one has, the record is listed by an update    *)
(* exactly when no cached record of the title has its resolution label.     *)
C7_NewByTitle ==
    pc = "done" =>
        \A i \in Within(MovieRecords(all_items)) :
            /\ (\E k \in CallsFor("movie", i.Name) :
                    sent[k].event = "new" /\ Resolution(i) \in sent[k].res)
               <=> CachedMovies(i.Name) = {}
            /\ (\E k \in CallsFor("movie", i.Name) :
                    sent[k].event = "update" /\ Resolution(i) \in sent[k].res)
               <=> (/\ CachedMovies(i.Name) # {}
                    /\ Resolution(i) \notin Labels(CachedMovies(i.Name)))

C7_Witness ==
    /\ pc = "done"
    /\ \E i \in Within(MovieRecords(all_items)) :
         /\ i.Id \notin {j.Id : j \in old_items.items}
         /\ \E j \in CachedMovies(i.Name) : Resolution(j) = Resolution(i)
         /\ CallsFor("movie", i.Name) = {}

\* Telegram accepted, in some run, a notification that announced the record
WasDelivered(i) ==
    \E d \in delivered :
        \/ d.kind = "movie" /\ d.title = i.Name /\ d.res = Resolution(i)
        \/ /\ d.kind = "series"
           /\ d.title = i.SeriesName
           /\ d.ep = <<i.ParentIndexNumber, i.IndexNumber>>

C9_LoadYieldsEmptySnapshot ==
    (pc # "idle" /\ cacheAtStart.kind # "list") =>
        (old_items = Loaded("list", {}) /\ pc # "crashed")

\* the title has something to announce in this run
MovieQualifies(t) ==
    /\ Within(CurrentMovies(t)) # {}
    /\ CachedMovies(t) = {} \/ AddedLabels(t) # {}

SeriesQualifies(t) ==
    /\ Within(CurrentEpisodes(t)) # {}
    /\ \/ CachedEpisodes(t) = {}
       \/ Numbers(Within(CurrentEpisodes(t))) \ Numbers(CachedEpisodes(t)) # {}

(* C10: a failed enrichment call or a failed delivery never blocks the      *)
(* other titles: no run dies after one, every title with something to       *)
(* announce is still to be iterated or has had its send_telegram call, the  *)
(* loops can always go on, and the run that ends has saved the cache.       *)
C10_FailuresDoNotBlock ==
    /\ pc = "crashed" => (sent = <<>> /\ warn \cap {"TMDb", "Trakt", "Telegram"} = {})
    /\ Started =>
        /\ \A t \in MovieTitles :
              MovieQualifies(t) => (t \in todoMovies \/ CallsFor("movie", t) # {})
        /\ \A t \in SeriesTitles :
              SeriesQualifies(t) => (t \in todoSeries \/ CallsFor("series", t) # {})
    /\ pc = "notify" => ENABLED (NotifyMovie \/ NotifySeries \/ SaveCache)
    /\ pc = "done" =>
        /\ todoMovies = {}
        /\ todoSeries = {}
        /\ cacheFile = save_cache(all_items)

C10_Witness ==
    /\ pc = "done"
    /\ {"TMDb", "Trakt", "Telegram"} \subseteq warn
    /\ \E k, j \in 1..Len(sent) :
         /\ k < j
         /\ ~sent[k].ok
         /\ sent[j].title # sent[k].title

(* C11: the process exits with status 0 on a normal run and with a non-zero  *)
(* status when the catalog fetch fails.  The except-branch of the Emby       *)
(* request prints and returns, so the interpreter exits with 0: TLC refutes  *)
(* this.                                                                     *)
C11_ExitStatus ==
    /\ pc = "done" => exit_status(pc) = 0
    /\ pc = "failed" => exit_status(pc) # 0

(* C12: in every run the cache is written at most once, by the step that     *)
(* ends the run, when every title of both loops has been iterated; until     *)
(* then, and in a run that stops earlier, data/cache.json is what it was     *)
(* when the run began.                                                       *)
C12_CacheWrittenOnceAtEnd ==
    /\ [](pc # "done" => cacheFile = cacheAtStart)
    /\ [][cacheFile' # cacheFile =>
            (/\ pc = "notify"
             /\ todoMovies = {}
             /\ todoSeries = {}
             /\ pc' = "done")]_vars

C12_Witness ==
    /\ pc = "done"
    /\ Len(sent) > 1
    /\ cacheAtStart.kind = "list"
    /\ cacheAtStart.items # {}
    /\ cacheFile # cacheAtStart

(* C13: each call of an enrichment provider is best effort on its own: when  *)
(* the TMDb search and the details call succeed, the details carry a poster  *)
(* and a blank overview, and the en-US fallback call fails, the poster is    *)
(* still returned and only the overview is absent.  The whole body of the    *)
(* function is one try block, so the failing fallback makes it return       *)
(* (None, None): TLC refutes this.                                           *)
C13_FallbackFailureKeepsPoster ==
    (/\ probe.fn \in {"get_movie_info_tmdb", "get_series_info_tmdb"}
     /\ probe.arg.search = "hit"
     /\ probe.arg.details = [status |-> "ok", poster |-> TRUE, overview |-> "blank"]
     /\ probe.arg.fallback = "error")
    => (probe.result.poster /\ ~probe.result.plot)

\* numeric height of a resolution label; "Unknown" ranks after every height
HeightRank(label) ==
    CASE label = "480p"  -> 480
      [] label = "720p"  -> 720
      [] label = "1080p" -> 1080
      [] label = "2160p" -> 2160
      [] OTHER           -> 2160 + 1

(* C14: the resolutions a movie notification lists are in ascending order of *)
(* numeric height, "Unknown" last.  sorted() compares the labels as strings, *)
(* so "1080p" and "2160p" come before "480p" and "720p": TLC refutes this.   *)
C14_ListedByAscendingHeight ==
    probe.fn = "sorted" =>
        \A j, k \in 1..Len(probe.result) :
            j < k => HeightRank(probe.result[j]) < HeightRank(probe.result[k])

\* the label the record's fields call for: the first token of the path, else
\* the height of the first video stream of the first media source, else
\* "Unknown"
ExpectedLabel(i) ==
    IF PathMatches(i.Path) # {} THEN FirstMatch(i.Path)
    ELSE IF /\ i.MediaSources.present
            /\ Len(i.MediaSources.list) > 0
            /\ Len(i.MediaSources.list[1]) > 0
            /\ i.MediaSources.list[1][1] # NoInt
         THEN ToString(i.MediaSources.list[1][1]) \o "p"
         ELSE "Unknown"

(* C15: build_movie_map labels a record with the resolution token of its     *)
(* path, else with the height of its first video stream, else "Unknown"; it  *)
(* does not fail on a record with missing fields, whose label is "Unknown".  *)
(* An empty MediaSources list raises IndexError and a stream without Height  *)
(* is labelled "Nonep": TLC refutes this.                                    *)
C15_LabelOfEveryRecord ==
    probe.fn = "build_movie_map" =>
        /\ ~probe.result.raised
        /\ probe.result.map["P"] =
               {<<ExpectedLabel(probe.arg), probe.arg.DateCreated>>}

(* C16: the audio label of the workflow script is "2.0" for 2 channels,      *)
(* "5.1" for 6, "7.1" for 8 and "{channels-1}.1" for another count of 2 or   *)
(* more; below 2 channels the leading number is clamped to 1; an audio       *)
(* stream with no channel count is taken as stereo.  format_audio does not   *)
(* clamp ("0.1" for one channel) and raises TypeError on None: TLC refutes   *)
(* this.                                                                     *)
C16_AudioLabel ==
    probe.fn = "format_audio" =>
        LET audio == SelectSeq(probe.arg, LAMBDA st : st.Type = "Audio")
            c == IF audio = <<>> \/ audio[1].Channels = NoInt
                 THEN 2 ELSE audio[1].Channels
        IN  /\ ~probe.result.raised
            /\ probe.result.label =
                 (CASE c = 2 -> "2.0"
                    [] c = 6 -> "5.1"
                    [] c = 8 -> "7.1"
                    [] c < 2 -> "1.1"
                    [] OTHER -> ToString(c - 1) \o ".1")

(* C17: in main() of the workflow script an item whose id is in the loaded   *)
(* cache triggers no Telegram message, and a run whose fetched items are all *)
(* cached sends nothing.  The loop calls send_telegram for every item, with  *)
(* the status "Aggiornamento" for a cached one: TLC refutes this.            *)
C17_CachedItemNotSent ==
    \A k \in 1..Len(wf.sent) : wf.sent[k].id \notin wf.cache.ids

(* C18: over a catalog that only grows, whatever fetches, enrichment calls   *)
(* and deliveries fail, no resolution of a movie title and no episode of a   *)
(* series is announced by a delivered notification in more than one run.     *)
C18_NoAdditionAnnouncedTwice == redelivered = {}

C18_Witness ==
    /\ pc = "done"
    /\ redelivered = {}
    /\ \E k \in 1..Len(sent) :
         /\ sent[k].ok
         /\ sent[k].event = "update"
         /\ \E d \in delivered \ Announced(sent[k]) :
              /\ d.title = sent[k].title
              /\ \E i \in old_items.items \cap all_items :
                   i.Name = d.title /\ Resolution(i) = d.res

(* C19: a title absent from the cache whose catalog entries are all dated    *)
(* before the cutoff gets no notification in the run, which writes its       *)
(* entries to the cache; and no call of a later run announces one of those   *)
(* entries while it is in the catalog.                                       *)
C19_OldTitlesCachedSilently ==
    /\ pc = "done" =>
         /\ \A t \in MovieTitles :
              (CachedMovies(t) = {} /\ Within(CurrentMovies(t)) = {}) =>
                  /\ CallsFor("movie", t) = {}
                  /\ CurrentMovies(t) \subseteq cacheFile.items
         /\ \A t \in SeriesTitles :
              (CachedEpisodes(t) = {} /\ Within(CurrentEpisodes(t)) = {}) =>
                  /\ CallsFor("series", t) = {}
                  /\ CurrentEpisodes(t) \subseteq cacheFile.items
    /\ Started =>
         \A i \in quiet \cap all_items :
             \A k \in 1..Len(sent) : ~Announces(sent[k], i)

C19_Witness ==
    /\ pc = "done"
    /\ \E i \in quiet \cap all_items \cap old_items.items :
         /\ i.Type = "Movie"
         /\ \E k \in CallsFor("movie", i.Name) : sent[k].ok
    /\ \E i \in quiet \cap all_items \cap old_items.items :
         /\ i.Type = "Episode"
         /\ \E k \in CallsFor("series", i.SeriesName) : sent[k].ok

====
